---- MODULE Spec2Model ----
(***************************************************************************)
(* Model of the chat persistence layer (src/communication/database.ts:     *)
(* class Database over the users / rooms / messages tables created by      *)
(* databaseLoader.load) and of the completion handler (src/unnamed/        *)
(* part_000).  Tables are sets (or, for messages, a heap sequence) of rows; *)
(* every Database method is an action whose outcome is recorded in `last`. *)
(***************************************************************************)
EXTENDS Integers, Sequences, FiniteSets, TLC

VARIABLES
    users,      \* table users:    set of [id, username, avatar_url, access_token]
    rooms,      \* table rooms:    set of [id, name, prompt]
    roomIdSeq,  \* next value of the identity sequence of rooms.id
    messages,   \* table messages: heap (physical order) of [created_at, message, from, room]
    now,        \* storage clock, the source of created_at
    calls,      \* in-flight ensureRoom invocations: position and arguments
    returned,   \* history: <<name, ret>> of every ensureRoom call that returned
    sends,      \* send-interactions: phase and what each has persisted
    last        \* outcome of the most recent client statement / method

vars == <<users, rooms, roomIdSeq, messages, now, calls, returned, sends, last>>

tables == <<users, rooms, roomIdSeq, messages>>

----------------------------------------------------------------------------
(* Bounds of the model. *)

MaxCalls == 2       \* concurrent ensureRoom invocations
MaxRoomId == 3      \* cap on the rooms.id identity sequence
MaxMsgs == 3        \* cap on stored messages
MaxTime == 2        \* cap on the storage clock
MaxChoices == 4     \* cap on the choices of one provider response
MaxSends == 2       \* concurrent send-interactions

(* Input alphabets. *)

NULL == "<null>"              \* SQL NULL / a column never written
UNDEFINED == "<undefined>"    \* JavaScript undefined

RoomNames == {"Lobby", "a", "b"}
Prompts == {"p", "q"}
UserIds == {1, 2}
UserNames == {"ann", "bob"}
AvatarUrls == {"x", "y"}
AccessTokens == {"t1", "t2"}
Texts == {"hi"}
Contents == {"", "hello!", "salam"}

(* Error codes of the storage client (error.code) and kinds of thrown     *)
(* errors.                                                                 *)
NoError == ""
UniqueViolation == "23505"
ForeignKeyViolation == "23503"
ConnectionFailure == "08006"
NotSingleRow == "PGRST116"
TypeError == "TypeError"
ProviderFailure == "CompletionProviderFailure"

LobbyId == 0
FirstIdentity == 1

----------------------------------------------------------------------------
(* The state after databaseLoader.load() and new Database().               *)

IdleCall == [pc |-> "idle", name |-> "", prompt |-> "", code |-> NoError]

IdleSend ==
    [phase |-> "Idle", text |-> "", roomId |-> 0, userId |-> 0,
     userMsg |-> 0, userAt |-> 0, answer |-> "", reply |-> 0]

Result(op, in, out, err) == [op |-> op, in |-> in, out |-> out, err |-> err]

SeedRooms == {[id |-> LobbyId, name |-> "Lobby", prompt |-> NULL]}

Init ==
    /\ users = {}
    /\ rooms = SeedRooms
    /\ roomIdSeq = FirstIdentity
    /\ messages = <<>>
    /\ now = 0
    /\ calls = [c \in 1..MaxCalls |-> IdleCall]
    /\ returned = {}
    /\ sends = [i \in 1..MaxSends |-> IdleSend]
    /\ last = Result("load", <<>>, <<>>, NoError)

----------------------------------------------------------------------------
(* Room Store: statements on the rooms table.                              *)

RoomsByName(name) == {r \in rooms : r.name = name}

RoomsById(roomId) == {r \in rooms : r.id = roomId}

\* Mutant: the rooms table without its unique constraint on name.
InsertRoomError_NoUniqueName(name, fault) ==
    IF fault THEN ConnectionFailure
    ELSE IF RoomsById(roomIdSeq) # {} THEN UniqueViolation
    ELSE NoError

\* insert into rooms (name, prompt): the identity value is drawn first (and
\* is consumed even when the row is rejected), then name unique is checked.
InsertRoomError(name, fault) ==
    IF fault THEN ConnectionFailure
    ELSE IF RoomsByName(name) # {} \/ RoomsById(roomIdSeq) # {} THEN UniqueViolation
    ELSE NoError

\* Mutant: the insert with upsert: true on name, overwriting the prompt of
\* the stored row.
InsertRoomRows_Upsert(name, prompt, fault) ==
    IF fault THEN rooms
    ELSE IF RoomsByName(name) # {}
    THEN {IF r.name = name THEN [r EXCEPT !.prompt = prompt] ELSE r : r \in rooms}
    ELSE rooms \cup {[id |-> roomIdSeq, name |-> name, prompt |-> prompt]}

InsertRoomRows(name, prompt, fault) ==
    IF InsertRoomError(name, fault) = NoError
    THEN rooms \cup {[id |-> roomIdSeq, name |-> name, prompt |-> prompt]}
    ELSE rooms

\* Mutant: ensureRoom ignoring every insert error, not only 23505.
EnsureRoomInsertThrows_Never(code) == FALSE

\* ensureRoom continues to the read unless the insert failed with a code
\* other than 23505.
EnsureRoomInsertThrows(code) == code # NoError /\ code # UniqueViolation

\* ensureRoom, first statement (insert).
EnsureRoomInsert(c, name, prompt, fault) ==
    /\ calls[c].pc = "idle"
    /\ roomIdSeq <= MaxRoomId
    /\ LET code == InsertRoomError(name, fault) IN
        /\ rooms' = InsertRoomRows(name, prompt, fault)
        /\ roomIdSeq' = IF fault THEN roomIdSeq ELSE roomIdSeq + 1
        /\ IF EnsureRoomInsertThrows(code)
           THEN /\ calls' = calls
                /\ last' = Result("ensureRoom", <<name, prompt>>, <<>>, code)
           ELSE /\ calls' = [calls EXCEPT ![c] = [pc |-> "read", name |-> name, prompt |-> prompt, code |-> code]]
                /\ last' = Result("ensureRoom.insert", <<name, prompt>>, <<>>, code)
    /\ UNCHANGED <<users, messages, now, returned, sends>>

\* Mutant: the return guarded by the id's truthiness (data[0].id) instead
\* of the row's (data[0]); the id 0 is falsy.
EnsureRoomReturn_TruthyId(rows) ==
    IF rows = {} THEN {<<>>} ELSE {IF r.id = 0 THEN <<>> ELSE <<r.id>> : r \in rows}

\* What ensureRoom returns from the rows of its read: data[0].id, or nothing.
EnsureRoomReturn(rows) ==
    IF rows = {} THEN {<<>>} ELSE {<<r.id>> : r \in rows}

\* ensureRoom, second statement (select id where name = ...) and return.
EnsureRoomRead(c, fault) ==
    /\ calls[c].pc = "read"
    /\ LET name == calls[c].name
           prompt == calls[c].prompt IN
        IF fault
        THEN /\ last' = Result("ensureRoom", <<name, prompt>>, <<>>, ConnectionFailure)
             /\ returned' = returned
        ELSE \E ret \in EnsureRoomReturn(RoomsByName(name)) :
                /\ last' = Result("ensureRoom", <<name, prompt>>, ret, NoError)
                /\ returned' = returned \cup {<<name, ret>>}
    /\ calls' = [calls EXCEPT ![c] = IdleCall]
    /\ UNCHANGED <<users, rooms, roomIdSeq, messages, now, sends>>

\* Mutant: the seed as a plain insert, without "on conflict (id) do nothing".
SeedError_NoOnConflict(fault) ==
    IF fault THEN ConnectionFailure
    ELSE IF RoomsById(LobbyId) # {} \/ RoomsByName("Lobby") # {} THEN UniqueViolation
    ELSE NoError

\* insert into rooms (id, name) values (0, 'Lobby') on conflict (id) do
\* nothing: a row with id 0 makes the statement a no-op; the conflict
\* clause does not cover name unique.
SeedError(fault) ==
    IF fault THEN ConnectionFailure
    ELSE IF RoomsById(LobbyId) # {} THEN NoError
    ELSE IF RoomsByName("Lobby") # {} THEN UniqueViolation
    ELSE NoError

SeedRows(fault) ==
    IF SeedError(fault) = NoError /\ RoomsById(LobbyId) = {}
    THEN rooms \cup SeedRooms
    ELSE rooms

\* The seed statement of databaseLoader.load, run again by a later load; an
\* explicit id draws nothing from the identity sequence.
Seed(fault) ==
    /\ rooms' = SeedRows(fault)
    /\ last' = Result("load.seed", <<>>, <<>>, SeedError(fault))
    /\ UNCHANGED <<users, roomIdSeq, messages, now, calls, returned, sends>>

RoomIds == 0..(MaxRoomId + 1)

\* Mutant: .maybeSingle() in place of .single(): no error when no row matched.
SingleError_MaybeSingle(rows, fault) ==
    IF fault THEN ConnectionFailure
    ELSE IF Cardinality(rows) > 1 THEN NotSingleRow
    ELSE NoError

\* .single(): an error unless exactly one row matched.
SingleError(rows, fault) ==
    IF fault THEN ConnectionFailure
    ELSE IF Cardinality(rows) # 1 THEN NotSingleRow
    ELSE NoError

\* getRoomName: select name where id = roomId; returns data[0].name, which
\* raises a TypeError when data is empty.
GetRoomName(roomId, fault) ==
    /\ LET rows == RoomsById(roomId) IN
        IF fault
        THEN last' = Result("getRoomName", <<roomId>>, <<>>, ConnectionFailure)
        ELSE IF rows = {}
        THEN last' = Result("getRoomName", <<roomId>>, <<>>, TypeError)
        ELSE \E r \in rows : last' = Result("getRoomName", <<roomId>>, <<r.name>>, NoError)
    /\ UNCHANGED <<users, rooms, roomIdSeq, messages, now, calls, returned, sends>>

\* getRoomNamePrompt: select name,prompt where id = roomId, .single();
\* destructures data, which raises a TypeError when data is null.
GetRoomNamePrompt(roomId, fault) ==
    /\ LET rows == RoomsById(roomId)
           err == SingleError(rows, fault) IN
        IF err # NoError
        THEN last' = Result("getRoomNamePrompt", <<roomId>>, <<>>, err)
        ELSE IF rows = {}
        THEN last' = Result("getRoomNamePrompt", <<roomId>>, <<>>, TypeError)
        ELSE \E r \in rows :
                last' = Result("getRoomNamePrompt", <<roomId>>, <<r.name, r.prompt>>, NoError)
    /\ UNCHANGED <<users, rooms, roomIdSeq, messages, now, calls, returned, sends>>

\* getRoomPrompt: select prompt where id = roomId, .single(); returns
\* data?.prompt, which is undefined when data is null.
GetRoomPrompt(roomId, fault) ==
    /\ LET rows == RoomsById(roomId)
           err == SingleError(rows, fault) IN
        IF err # NoError
        THEN last' = Result("getRoomPrompt", <<roomId>>, <<>>, err)
        ELSE IF rows = {}
        THEN last' = Result("getRoomPrompt", <<roomId>>, <<UNDEFINED>>, NoError)
        ELSE \E r \in rows : last' = Result("getRoomPrompt", <<roomId>>, <<r.prompt>>, NoError)
    /\ UNCHANGED <<users, rooms, roomIdSeq, messages, now, calls, returned, sends>>

----------------------------------------------------------------------------
(* Identity Resolver: statements on the users table.                        *)

UserRow(userId, userName, avatarUrl, accessToken) ==
    [id |-> userId, username |-> userName, avatar_url |-> avatarUrl,
     access_token |-> accessToken]

\* Mutant: the users table without its unique constraint on username.
UpsertUserError_NoUniqueName(row, fault) ==
    IF fault THEN ConnectionFailure ELSE NoError

\* upsert on users: the row is rejected when another id holds the username
\* (username text unique).
UpsertUserError(row, fault) ==
    IF fault THEN ConnectionFailure
    ELSE IF \E r \in users : r.id # row.id /\ r.username = row.username THEN UniqueViolation
    ELSE NoError

\* Mutant: upsert resolving a conflict on id by keeping the stored row
\* (ignore-duplicates) instead of overwriting it.
UpsertUserRows_IgnoreDuplicates(row) ==
    IF \E r \in users : r.id = row.id THEN users ELSE users \cup {row}

\* upsert on users, conflict on the primary key id: insert, or overwrite
\* every written column of the stored row.
UpsertUserRows(row) ==
    {r \in users : r.id # row.id} \cup {row}

\* insertUser: upsert one row, returning minimal; throws on error.
InsertUser(userId, userName, avatarUrl, accessToken, fault) ==
    /\ LET row == UserRow(userId, userName, avatarUrl, accessToken)
           err == UpsertUserError(row, fault) IN
        /\ users' = IF err = NoError THEN UpsertUserRows(row) ELSE users
        /\ last' = Result("insertUser", <<userId, userName, avatarUrl, accessToken>>, <<>>, err)
    /\ UNCHANGED <<rooms, roomIdSeq, messages, now, calls, returned, sends>>

UsersByAccessToken(accessToken) == {r \in users : r.access_token = accessToken}

\* The DatabaseUser built from a users row (id, username, avatar_url).
DatabaseUser(r) == [userId |-> r.id, userName |-> r.username, avatarUrl |-> r.avatar_url]

\* getUserByAccessToken: undefined when no row matched, else data[0] (of
\* an unordered select) as a DatabaseUser.
GetUserByAccessTokenReturn(rows) ==
    IF rows = {} THEN {<<>>} ELSE {<<DatabaseUser(r)>> : r \in rows}

GetUserByAccessToken(accessToken, fault) ==
    /\ IF fault
       THEN last' = Result("getUserByAccessToken", <<accessToken>>, <<>>, ConnectionFailure)
       ELSE \E ret \in GetUserByAccessTokenReturn(UsersByAccessToken(accessToken)) :
               last' = Result("getUserByAccessToken", <<accessToken>>, ret, NoError)
    /\ UNCHANGED <<users, rooms, roomIdSeq, messages, now, calls, returned, sends>>

IdentityNotFound == "Could not find user with access token."

\* Mutant: user === null, which undefined does not satisfy.
UserIsNull_Strict(ret) == FALSE

\* user == null: true of undefined.
UserIsNull(ret) == ret = <<>>

\* getUserByAccessTokenOrThrow: the user of getUserByAccessToken, or an
\* error when that is null or undefined.
GetUserByAccessTokenOrThrow(accessToken, fault) ==
    /\ IF fault
       THEN last' = Result("getUserByAccessTokenOrThrow", <<accessToken>>, <<>>, ConnectionFailure)
       ELSE \E ret \in GetUserByAccessTokenReturn(UsersByAccessToken(accessToken)) :
               IF UserIsNull(ret)
               THEN last' = Result("getUserByAccessTokenOrThrow", <<accessToken>>, <<>>,
                               IdentityNotFound)
               ELSE last' = Result("getUserByAccessTokenOrThrow", <<accessToken>>, ret, NoError)
    /\ UNCHANGED <<users, rooms, roomIdSeq, messages, now, calls, returned, sends>>

----------------------------------------------------------------------------
(* Message Store: statements on the messages table.                         *)

UsersById(userId) == {r \in users : r.id = userId}

\* Mutant: the messages table without its two references.
InsertMessageError_NoForeignKeys(roomId, userId, fault) ==
    IF fault THEN ConnectionFailure ELSE NoError

\* insert into messages (message, room, "from"): "from" references users
\* (id) and room references rooms (id).
InsertMessageError(roomId, userId, fault) ==
    IF fault THEN ConnectionFailure
    ELSE IF RoomsById(roomId) = {} \/ UsersById(userId) = {} THEN ForeignKeyViolation
    ELSE NoError

\* The stored row: created_at is the storage clock's default; id (identity)
\* is read by no statement and is the row's position in the heap.
\* A text of undefined is left out of the request body, and the column
\* stays NULL.
MessageRow(text, roomId, userId, t) ==
    [created_at |-> t, message |-> IF text = UNDEFINED THEN NULL ELSE text,
     from |-> userId, room |-> roomId]

InsertMessageRows(text, roomId, userId, t, fault) ==
    IF InsertMessageError(roomId, userId, fault) = NoError
    THEN Append(messages, MessageRow(text, roomId, userId, t))
    ELSE messages

\* The storage clock at a statement: it has not moved since the previous
\* statement, or it has advanced.
ClockReadings == {t \in {now, now + 1} : t <= MaxTime}

\* insertMessage awaits the insert and drops its result: whatever error the
\* statement reports, nothing is thrown.
InsertMessageThrown(code) == NoError

\* insertMessage.
InsertMessage(text, roomId, userId, fault) ==
    /\ Len(messages) < MaxMsgs
    /\ \E t \in ClockReadings :
        /\ messages' = InsertMessageRows(text, roomId, userId, t, fault)
        /\ now' = t
    /\ last' = Result("insertMessage", <<text, roomId, userId>>, <<>>,
                      InsertMessageThrown(InsertMessageError(roomId, userId, fault)))
    /\ UNCHANGED <<users, rooms, roomIdSeq, calls, returned, sends>>

\* Mutant: the select cut off after a first page of two rows.
MessagesOfRoom_FirstPage(roomId) ==
    LET rows == SelectSeq(messages, LAMBDA m : m.room = roomId) IN
    IF Len(rows) <= 2 THEN rows ELSE SubSeq(rows, 1, 2)

\* select ... from messages where room = roomId, in heap order.
MessagesOfRoom(roomId) == SelectSeq(messages, LAMBDA m : m.room = roomId)

\* The rows of a select that has no order by, in every order a scan may
\* produce them.
Unordered(rows) ==
    {[i \in 1..Len(rows) |-> rows[p[i]]] : p \in Permutations(1..Len(rows))}

\* The order of getRoomMessages' select: none is asked for.
SelectOrder(rows) == Unordered(rows)

\* The MessageView of a row, its "from" embedded as the users row it
\* references.
MessageView(m) ==
    LET u == CHOOSE r \in UsersById(m.from) : TRUE IN
    [message |-> m.message,
     from |-> [name |-> u.username, avatarUrl |-> u.avatar_url],
     createdAt |-> m.created_at]

\* getRoomMessages: the rows mapped to MessageViews; reading m.from.username
\* raises a TypeError for a row whose embedded "from" is null.
GetRoomMessages(roomId, fault) ==
    /\ IF fault
       THEN last' = Result("getRoomMessages", <<roomId>>, <<>>, ConnectionFailure)
       ELSE \E data \in SelectOrder(MessagesOfRoom(roomId)) :
               IF \E i \in 1..Len(data) : UsersById(data[i].from) = {}
               THEN last' = Result("getRoomMessages", <<roomId>>, <<>>, TypeError)
               ELSE last' = Result("getRoomMessages", <<roomId>>,
                                   [i \in 1..Len(data) |-> MessageView(data[i])], NoError)
    /\ UNCHANGED <<users, rooms, roomIdSeq, messages, now, calls, returned, sends>>

----------------------------------------------------------------------------
(* Room Store: the rooms_with_activity view and getRooms.                   *)

CreatedAtOfRoom(roomId) ==
    {messages[i].created_at : i \in {k \in 1..Len(messages) : messages[k].room = roomId}}

Max(S) == CHOOSE x \in S : \A y \in S : y <= x

\* max(messages.created_at) over the left join: <<t>>, or <<>> (NULL) for a
\* room no message references.
LastMessageAt(roomId) ==
    IF CreatedAtOfRoom(roomId) = {} THEN <<>> ELSE <<Max(CreatedAtOfRoom(roomId))>>

\* One row per room (group by rooms.id).
ActivityRows ==
    {[id |-> r.id, name |-> r.name, last_message_at |-> LastMessageAt(r.id)] : r \in rooms}

\* Mutant: order by last_message_at desc without "nulls last"; descending
\* order puts NULLs first by default.
MayPrecede_NullsFirst(a, b) ==
    \/ a = <<>>
    \/ b # <<>> /\ a[1] >= b[1]

\* order by last_message_at desc nulls last: whether a row with key a may
\* stand before a row with key b.
MayPrecede(a, b) ==
    \/ b = <<>>
    \/ a # <<>> /\ a[1] >= b[1]

\* The view's rows in each order its order by allows (rows with equal keys
\* in any order).
RoomsWithActivity ==
    LET n == Cardinality(ActivityRows) IN
    {s \in [1..n -> ActivityRows] :
        /\ \A i \in 1..n, j \in 1..n : i # j => s[i] # s[j]
        /\ \A i \in 1..n, j \in 1..n :
              i < j => MayPrecede(s[i].last_message_at, s[j].last_message_at)}

\* getRooms: select id,name,last_message_at from rooms_with_activity.
GetRooms(fault) ==
    /\ IF fault
       THEN last' = Result("getRooms", <<>>, <<>>, ConnectionFailure)
       ELSE \E data \in RoomsWithActivity :
               last' = Result("getRooms", <<>>,
                              [i \in 1..Len(data) |->
                                  [roomId |-> data[i].id, name |-> data[i].name,
                                   lastMessageAt |-> data[i].last_message_at]],
                              NoError)
    /\ UNCHANGED <<users, rooms, roomIdSeq, messages, now, calls, returned, sends>>

----------------------------------------------------------------------------
(* Conversation Assembler: the completion handler.                          *)

\* The handler's fixed system persona (an Arabic text in the source) and
\* user content.
SystemRoleContenet == "system persona"
userContent == "jock for animal dog"

\* The messages of the chat-completion request: a system instruction, then
\* a user instruction.
BuildRequest(prompt, userMessage) ==
    <<[role |-> "system", content |-> prompt], [role |-> "user", content |-> userMessage]>>

Choice(content) == [message |-> [content |-> content]]

\* What the provider may answer: a completion with 0..MaxChoices choices,
\* or a body without choices (an error object).
Completions ==
    {[choices |-> cs] :
        cs \in UNION {[1..n -> {Choice(c) : c \in Contents}] : n \in 0..MaxChoices}}

ErrorBody == [error |-> "provider error"]

\* choices[0]?.message.content: undefined when there is no first choice.
ExtractReply(completion) ==
    IF Len(completion.choices) = 0
    THEN UNDEFINED
    ELSE completion.choices[1].message.content

\* What reading chatCompletion?.choices and then choices[0] raises.
ExtractReplyError(completion) ==
    IF "choices" \in DOMAIN completion THEN NoError ELSE TypeError

\* handler.GET: one chat completion of the fixed request, answered with the
\* extracted text and status 200.
HandlerGET(completion, thrown) ==
    /\ LET request == BuildRequest(SystemRoleContenet, userContent) IN
        IF thrown
        THEN last' = Result("GET", <<request>>, <<>>, ProviderFailure)
        ELSE IF ExtractReplyError(completion) # NoError
        THEN last' = Result("GET", <<request, completion>>, <<>>, ExtractReplyError(completion))
        ELSE last' = Result("GET", <<request, completion>>,
                            <<200, ExtractReply(completion)>>, NoError)
    /\ UNCHANGED <<users, rooms, roomIdSeq, messages, now, calls, returned, sends>>

----------------------------------------------------------------------------
(* A send-interaction: Idle -> UserMessagePersisted -> RequestBuilt ->      *)
(* AwaitingProvider -> ReplyPersisted | ReplyFailed.  The caller's sequence *)
(* of steps is the specified one; each step runs the Database method or the *)
(* handler's extraction above.                                              *)

\* The actor and the room were resolved before the interaction; the user's
\* message is persisted with insertMessage, and the interaction goes on
\* unless that throws.
SendUserMessage(i, text, roomId, userId, fault) ==
    /\ sends[i].phase = "Idle"
    /\ RoomsById(roomId) # {}
    /\ UsersById(userId) # {}
    /\ Len(messages) < MaxMsgs
    /\ \E t \in ClockReadings :
        LET code == InsertMessageError(roomId, userId, fault)
            thrown == InsertMessageThrown(code) IN
        /\ messages' = InsertMessageRows(text, roomId, userId, t, fault)
        /\ now' = t
        /\ last' = Result("insertMessage", <<text, roomId, userId>>, <<>>, thrown)
        /\ sends' = IF thrown # NoError THEN sends
                    ELSE [sends EXCEPT ![i] =
                            [phase |-> "UserMessagePersisted", text |-> text,
                             roomId |-> roomId, userId |-> userId,
                             userMsg |-> IF code = NoError THEN Len(messages) + 1 ELSE 0,
                             userAt |-> t, answer |-> "", reply |-> 0]]
    /\ UNCHANGED <<users, rooms, roomIdSeq, calls, returned>>

\* The request is built from the room's stored prompt and the message text.
SendBuildRequest(i) ==
    /\ sends[i].phase = "UserMessagePersisted"
    /\ \E r \in RoomsById(sends[i].roomId) :
          last' = Result("buildRequest", <<r.prompt, sends[i].text>>,
                         BuildRequest(r.prompt, sends[i].text), NoError)
    /\ sends' = [sends EXCEPT ![i].phase = "RequestBuilt"]
    /\ UNCHANGED <<users, rooms, roomIdSeq, messages, now, calls, returned>>

\* The provider call is issued; the caller suspends.
SendCallProvider(i) ==
    /\ sends[i].phase = "RequestBuilt"
    /\ sends' = [sends EXCEPT ![i].phase = "AwaitingProvider"]
    /\ last' = Result("createChatCompletion", <<i>>, <<>>, NoError)
    /\ UNCHANGED <<users, rooms, roomIdSeq, messages, now, calls, returned>>

\* The provider call fails, or it answers: the reply text is extracted as
\* the handler extracts it and persisted with insertMessage under the
\* identity the caller chose for the assistant.
SendProviderAnswer(i, completion, thrown, assistantId, fault) ==
    /\ sends[i].phase = "AwaitingProvider"
    /\ IF thrown \/ ExtractReplyError(completion) # NoError
       THEN /\ sends' = [sends EXCEPT ![i].phase = "ReplyFailed", ![i].answer = "failed"]
            /\ last' = Result("createChatCompletion", <<i>>, <<>>,
                              IF thrown THEN ProviderFailure ELSE ExtractReplyError(completion))
            /\ UNCHANGED <<messages, now>>
       ELSE /\ Len(messages) < MaxMsgs
            /\ \E t \in ClockReadings :
                LET text == ExtractReply(completion)
                    roomId == sends[i].roomId
                    code == InsertMessageError(roomId, assistantId, fault)
                    raised == InsertMessageThrown(code) IN
                /\ messages' = InsertMessageRows(text, roomId, assistantId, t, fault)
                /\ now' = t
                /\ last' = Result("insertMessage", <<text, roomId, assistantId>>, <<>>, raised)
                /\ sends' = [sends EXCEPT
                       ![i].phase = IF raised # NoError THEN "ReplyFailed" ELSE "ReplyPersisted",
                       ![i].answer = IF Len(completion.choices) = 0 THEN "empty" ELSE "content",
                       ![i].reply = IF code = NoError THEN Len(messages) + 1 ELSE 0]
    /\ UNCHANGED <<users, rooms, roomIdSeq, calls, returned>>

----------------------------------------------------------------------------
(* Concurrent ensureRoom invocations, their statements interleaved.         *)
NextRoom ==
    \/ \E c \in 1..MaxCalls, name \in RoomNames, prompt \in Prompts, fault \in BOOLEAN :
          EnsureRoomInsert(c, name, prompt, fault)
    \/ \E c \in 1..MaxCalls, fault \in BOOLEAN : EnsureRoomRead(c, fault)

SpecRoom == Init /\ [][NextRoom]_vars

(* Room lookups by id, over rooms created by one ensureRoom caller.         *)
NextRoomGet ==
    \/ \E name \in RoomNames, prompt \in Prompts : EnsureRoomInsert(1, name, prompt, FALSE)
    \/ EnsureRoomRead(1, FALSE)
    \/ \E roomId \in RoomIds, fault \in BOOLEAN : GetRoomName(roomId, fault)
    \/ \E roomId \in RoomIds, fault \in BOOLEAN : GetRoomNamePrompt(roomId, fault)
    \/ \E roomId \in RoomIds, fault \in BOOLEAN : GetRoomPrompt(roomId, fault)

SpecRoomGet == Init /\ [][NextRoomGet]_vars

(* Logins (upserts) and token lookups.                                      *)
NextUser ==
    \/ \E userId \in UserIds, userName \in UserNames, avatarUrl \in AvatarUrls,
          accessToken \in AccessTokens, fault \in BOOLEAN :
          InsertUser(userId, userName, avatarUrl, accessToken, fault)
    \/ \E accessToken \in AccessTokens, fault \in BOOLEAN :
          GetUserByAccessToken(accessToken, fault)
    \/ \E accessToken \in AccessTokens, fault \in BOOLEAN :
          GetUserByAccessTokenOrThrow(accessToken, fault)

SpecUser == Init /\ [][NextUser]_vars

(* Messages sent to the Lobby and to one created room by logged-in users.   *)
NextMsg ==
    \/ \E userId \in UserIds : InsertUser(userId, IF userId = 1 THEN "ann" ELSE "bob", "x", "t1", FALSE)
    \/ EnsureRoomInsert(1, "a", "p", FALSE)
    \/ EnsureRoomRead(1, FALSE)
    \/ \E text \in Texts, roomId \in 0..2, userId \in UserIds, fault \in BOOLEAN :
          InsertMessage(text, roomId, userId, fault)
    \/ \E roomId \in 0..2, fault \in BOOLEAN : GetRoomMessages(roomId, fault)

SpecMsg == Init /\ [][NextMsg]_vars

(* Room listing, over rooms created once each by one ensureRoom caller and   *)
(* messages sent by one user.                                               *)
NextList ==
    \/ InsertUser(1, "ann", "x", "t1", FALSE)
    \/ \E name \in {"a", "b"} : RoomsByName(name) = {} /\ EnsureRoomInsert(1, name, "p", FALSE)
    \/ EnsureRoomRead(1, FALSE)
    \/ \E text \in Texts, roomId \in 0..2 : InsertMessage(text, roomId, 1, FALSE)
    \/ \E fault \in BOOLEAN : GetRooms(fault)

SpecList == Init /\ [][NextList]_vars

(* The completion handler against every provider answer.                    *)
NextReply ==
    \E completion \in Completions \cup {ErrorBody}, thrown \in BOOLEAN :
        HandlerGET(completion, thrown)

SpecReply == Init /\ [][NextReply]_vars

(* Concurrent send-interactions in the Lobby.                               *)
NextSend ==
    \/ \E userId \in UserIds : InsertUser(userId, IF userId = 1 THEN "ann" ELSE "bob", "x", "t1", FALSE)
    \/ \E i \in 1..MaxSends, text \in Texts, userId \in UserIds, fault \in BOOLEAN :
          SendUserMessage(i, text, LobbyId, userId, fault)
    \/ \E i \in 1..MaxSends : SendBuildRequest(i)
    \/ \E i \in 1..MaxSends : SendCallProvider(i)
    \/ \E i \in 1..MaxSends, thrown \in BOOLEAN, assistantId \in UserIds, fault \in BOOLEAN,
          completion \in {c \in Completions : Len(c.choices) <= 1} \cup {ErrorBody} :
          SendProviderAnswer(i, completion, thrown, assistantId, fault)

SpecSend == Init /\ [][NextSend]_vars

(* The completion handler while rooms with prompts and messages are stored. *)
NextAsk ==
    \/ InsertUser(1, "ann", "x", "t1", FALSE)
    \/ \E prompt \in Prompts : EnsureRoomInsert(1, "a", prompt, FALSE)
    \/ EnsureRoomRead(1, FALSE)
    \/ \E text \in Texts, roomId \in 0..1 : InsertMessage(text, roomId, 1, FALSE)
    \/ \E completion \in {c \in Completions : Len(c.choices) <= 1}, thrown \in BOOLEAN :
          HandlerGET(completion, thrown)

SpecAsk == Init /\ [][NextAsk]_vars

(* Message histories of the Lobby and of one created room, written by two   *)
(* users, ann logging in before bob; the room before it is created and a    *)
(* user not yet logged in match no row.                                     *)
NextHist ==
    \/ InsertUser(1, "ann", "x", "t1", FALSE)
    \/ UsersById(1) # {} /\ InsertUser(2, "bob", "y", "t1", FALSE)
    \/ RoomsByName("a") = {} /\ EnsureRoomInsert(1, "a", "p", FALSE)
    \/ EnsureRoomRead(1, FALSE)
    \/ \E text \in Texts, roomId \in 0..1, userId \in UserIds :
          InsertMessage(text, roomId, userId, FALSE)
    \/ \E roomId \in 0..1 : GetRoomMessages(roomId, FALSE)

SpecHist == Init /\ [][NextHist]_vars

(* Further loads (seed statements) interleaved with ensureRoom calls, for   *)
(* the name Lobby among others.                                             *)
NextSeed ==
    \/ \E fault \in BOOLEAN : Seed(fault)
    \/ \E c \in 1..MaxCalls, name \in {"Lobby", "a"}, fault \in BOOLEAN :
          EnsureRoomInsert(c, name, "p", fault)
    \/ \E c \in 1..MaxCalls : EnsureRoomRead(c, FALSE)

SpecSeed == Init /\ [][NextSeed]_vars

(* Concurrent send-interactions in the Lobby whose provider calls answer,   *)
(* and readers of the Lobby's messages.                                     *)
NextStream ==
    \/ \E userId \in UserIds :
          InsertUser(userId, IF userId = 1 THEN "ann" ELSE "bob", "x", "t1", FALSE)
    \/ \E i \in 1..MaxSends, text \in Texts, userId \in UserIds :
          SendUserMessage(i, text, LobbyId, userId, FALSE)
    \/ \E i \in 1..MaxSends : SendBuildRequest(i)
    \/ \E i \in 1..MaxSends : SendCallProvider(i)
    \/ \E i \in 1..MaxSends, assistantId \in UserIds :
          SendProviderAnswer(i, [choices |-> <<Choice("hello!")>>], FALSE, assistantId, FALSE)
    \/ GetRoomMessages(LobbyId, FALSE)

SpecStream == Init /\ [][NextStream]_vars

----------------------------------------------------------------------------
(* Claims.                                                                  *)

\* C1: for any number of ensureRoom calls with the same name, sequential or
\* with their insert and read statements interleaved, every call that
\* returns returns the same roomId, the rooms table never holds two rows of
\* one name, and once a call for a name has returned exactly one row of
\* that name exists and its id is the value returned.
C1_SameRoomIdOneRowPerName ==
    /\ \A name \in RoomNames : Cardinality(RoomsByName(name)) <= 1
    /\ \A p \in returned, q \in returned : p[1] = q[1] => p[2] = q[2]
    /\ \A p \in returned :
          /\ Cardinality(RoomsByName(p[1])) = 1
          /\ \A r \in RoomsByName(p[1]) : p[2] = <<r.id>>

\* C1 witness: after one call for a new name has returned, two more calls
\* for that name have both passed their insert (each rejected as a
\* duplicate) before either has read.
C1_Witness ==
    \E c \in 1..MaxCalls, d \in 1..MaxCalls, p \in returned :
        /\ c # d
        /\ p[1] # "Lobby"
        /\ calls[c].pc = "read" /\ calls[c].name = p[1]
        /\ calls[d].pc = "read" /\ calls[d].name = p[1]
        /\ calls[c].code = UniqueViolation

GetRoomOps == {"getRoomName", "getRoomNamePrompt", "getRoomPrompt"}

RoomNotFoundErrors == {TypeError, NotSingleRow}

\* What each room lookup returns for the stored row r.
StoredRoomFields(op, r) ==
    CASE op = "getRoomName" -> <<r.name>>
      [] op = "getRoomNamePrompt" -> <<r.name, r.prompt>>
      [] op = "getRoomPrompt" -> <<r.prompt>>

C7_Step ==
    last'.op \in GetRoomOps =>
        /\ tables' = tables
        /\ LET rows == RoomsById(last'.in[1]) IN
            /\ rows = {} => last'.err # NoError /\ last'.out = <<>>
            /\ last'.err \in RoomNotFoundErrors <=> (rows = {} /\ last'.err # ConnectionFailure)
            /\ rows # {} => last'.err \in {NoError, ConnectionFailure}
            /\ last'.err = NoError =>
                  \E r \in rows : last'.out = StoredRoomFields(last'.op, r)

\* C7: getRoomName, getRoomPrompt and getRoomNamePrompt each raise an error
\* when no room has the given roomId (the not-found error exactly then) and
\* otherwise, when the storage call itself does not fail, return the stored
\* name and/or prompt of that room, the prompt possibly NULL; none of them
\* changes a table.
C7_RoomLookups == [][C7_Step]_vars

\* C7 witness: a lookup of a missing room has raised the not-found error
\* while a room created by ensureRoom exists.
C7_Witness ==
    /\ last.op \in GetRoomOps
    /\ last.err \in RoomNotFoundErrors
    /\ RoomsById(last.in[1]) = {}
    /\ Cardinality(rooms) > 1

C8_Step ==
    /\ \* the insert statement of a call
       last'.op = "ensureRoom.insert" =>
          /\ last'.err \in {NoError, UniqueViolation}
          /\ last'.err = UniqueViolation =>
                /\ rooms' = rooms
                /\ \E c \in 1..MaxCalls :
                      /\ calls[c].pc = "idle"
                      /\ calls'[c].pc = "read"
                      /\ calls'[c].name = last'.in[1]
    /\ \* a call that raised
       (last'.op = "ensureRoom" /\ last'.err # NoError) =>
          /\ last'.err # UniqueViolation
          /\ last'.out = <<>>
          /\ rooms' = rooms
          /\ returned' = returned
    /\ \* the read of a call whose insert was rejected as a duplicate
       \A c \in 1..MaxCalls :
          (calls[c].pc = "read" /\ calls'[c].pc = "idle"
              /\ calls[c].code = UniqueViolation /\ last'.err = NoError) =>
             /\ last'.op = "ensureRoom"
             /\ rooms' = rooms
             /\ \E r \in rooms : r.name = calls[c].name /\ last'.out = <<r.id>>

\* C8: in ensureRoom an insert rejected as a uniqueness violation is
\* ignored: the call goes on to the read and returns the existing room's
\* id; any other insert failure and any failure of the read raise an error
\* to the caller; a failed insert leaves the rooms table as it was.
C8_EnsureRoomErrors == [][C8_Step]_vars

\* C8 witness: a call whose insert was rejected with 23505 has returned the
\* id of the room that already held the name.
C8_Witness ==
    /\ last.op = "ensureRoom"
    /\ last.err = NoError
    /\ last.in[1] = "a"
    /\ \E r \in rooms : r.name = "a" /\ r.prompt # last.in[2] /\ last.out = <<r.id>>

\* C9 as stated: after an upsert for a userId the storage answered, the
\* users table holds exactly one row for that userId, with the userName,
\* avatarUrl and accessToken of that upsert.
C9_LatestUpsertStored ==
    (last.op = "insertUser" /\ last.err # ConnectionFailure) =>
        UsersById(last.in[1]) = {UserRow(last.in[1], last.in[2], last.in[3], last.in[4])}

C9_Step ==
    /\ \A userId \in UserIds : Cardinality({r \in users' : r.id = userId}) <= 1
    /\ last'.op = "insertUser" =>
          IF last'.err = NoError
          THEN /\ {r \in users' : r.id = last'.in[1]}
                     = {UserRow(last'.in[1], last'.in[2], last'.in[3], last'.in[4])}
               /\ {r \in users' : r.id # last'.in[1]} = {r \in users : r.id # last'.in[1]}
          ELSE users' = users
    /\ last'.op # "insertUser" => users' = users

\* C9 amended: upserting the same userId any number of times leaves at most
\* one users row for that userId, holding the values of the latest upsert
\* that did not raise; an upsert that raises (its userName is held by
\* another userId, or storage failed) changes nothing; rows of other
\* userIds are never changed.
C9_LatestSuccessfulUpsertStored == [][C9_Step]_vars

\* C9 witness: an upsert for a stored userId was rejected because another
\* userId holds the userName, and the row still holds the earlier values.
C9_Witness ==
    /\ last.op = "insertUser"
    /\ last.err = UniqueViolation
    /\ \E r \in UsersById(last.in[1]) : r.username # last.in[2]

TokenOps == {"getUserByAccessToken", "getUserByAccessTokenOrThrow"}

C10_Step ==
    last'.op \in TokenOps =>
        /\ tables' = tables
        /\ LET rows == {r \in users : r.access_token = last'.in[1]} IN
            /\ last'.err = NoError =>
                  IF rows = {}
                  THEN last'.op = "getUserByAccessToken" /\ last'.out = <<>>
                  ELSE \E r \in rows :
                          last'.out = <<[userId |-> r.id, userName |-> r.username,
                                         avatarUrl |-> r.avatar_url]>>
            /\ last'.op = "getUserByAccessToken" =>
                  last'.err \in {NoError, ConnectionFailure}
            /\ last'.op = "getUserByAccessTokenOrThrow" =>
                  /\ last'.err \in {NoError, ConnectionFailure, IdentityNotFound}
                  /\ rows # {} => last'.err # IdentityNotFound
                  /\ rows = {} => last'.err # NoError

\* C10: resolveByToken (getUserByAccessToken) returns a user whose stored
\* accessToken equals the given token, or nothing when no user has it;
\* resolveByTokenOrFail (getUserByAccessTokenOrThrow) returns such a user
\* when one exists and raises the not-found error exactly when no user has
\* the token; neither creates or changes a row.
C10_TokenLookups == [][C10_Step]_vars

\* C10 witness: with users stored, the throwing lookup raised not-found
\* for a token none of them holds.
C10_Witness ==
    /\ last.op = "getUserByAccessTokenOrThrow"
    /\ last.err = IdentityNotFound
    /\ users # {}
    /\ UsersByAccessToken(last.in[1]) = {}

\* C2: whatever insertMessage calls were made for a room, getRoomMessages
\* of that room returns its messages in non-decreasing createdAt order.
C2_MessagesInCreatedAtOrder ==
    (last.op = "getRoomMessages" /\ last.err = NoError) =>
        \A i \in 1..Len(last.out), j \in 1..Len(last.out) :
            i < j => last.out[i].createdAt <= last.out[j].createdAt

C3_Step ==
    last'.op = "insertMessage" =>
        /\ (RoomsById(last'.in[2]) = {} \/ UsersById(last'.in[3]) = {}) => last'.err # NoError
        /\ messages' = messages => last'.err # NoError

\* C3: insertMessage raises an error whenever the write fails, a roomId or
\* userId that references no row included; it never completes normally
\* without having stored the message.
C3_InsertMessageFailureRaised == [][C3_Step]_vars

\* The createdAt values of the stored messages of a room.
TimesOf(roomId) ==
    {messages[k].created_at : k \in {i \in 1..Len(messages) : messages[i].room = roomId}}

\* C6: listRooms (getRooms) returns every room exactly once; lastMessageAt
\* of each is the greatest createdAt of its messages (NULL when it has
\* none); a room whose latest message is later comes before a room whose
\* latest message is earlier, and every room without messages comes after
\* every room with one.
C6_RoomsByRecency ==
    (last.op = "getRooms" /\ last.err = NoError) =>
        LET out == last.out
            n == Len(out) IN
        /\ n = Cardinality(rooms)
        /\ \A r \in rooms :
              Cardinality({i \in 1..n : out[i].roomId = r.id}) = 1
        /\ \A i \in 1..n :
              /\ \E r \in rooms : r.id = out[i].roomId /\ r.name = out[i].name
              /\ IF TimesOf(out[i].roomId) = {}
                 THEN out[i].lastMessageAt = <<>>
                 ELSE /\ Len(out[i].lastMessageAt) = 1
                      /\ out[i].lastMessageAt[1] \in TimesOf(out[i].roomId)
                      /\ \A t \in TimesOf(out[i].roomId) : t <= out[i].lastMessageAt[1]
        /\ \A i \in 1..n, j \in 1..n :
              (TimesOf(out[i].roomId) # {} /\ TimesOf(out[j].roomId) # {}
                  /\ \E t \in TimesOf(out[i].roomId) :
                        \A u \in TimesOf(out[j].roomId) : u < t) => i < j
        /\ \A i \in 1..n, j \in 1..n :
              (TimesOf(out[i].roomId) # {} /\ TimesOf(out[j].roomId) = {}) => i < j

\* C6 witness: a listing of three rooms, the first two with messages at
\* different times and the last with none.
C6_Witness ==
    /\ last.op = "getRooms"
    /\ last.err = NoError
    /\ Len(last.out) = 3
    /\ last.out[1].lastMessageAt # <<>>
    /\ last.out[2].lastMessageAt # <<>>
    /\ last.out[1].lastMessageAt # last.out[2].lastMessageAt
    /\ last.out[3].lastMessageAt = <<>>
    /\ last.out[3].roomId = LobbyId

\* C4: extractReply of a provider response with zero choices fails (it
\* yields no reply text, empty or undefined); of a response with at least
\* one choice it yields exactly the content of the first choice.
C4_ExtractReply ==
    (last.op = "GET" /\ Len(last.in) = 2 /\ "choices" \in DOMAIN last.in[2]) =>
        IF Len(last.in[2].choices) = 0
        THEN last.err # NoError /\ last.out = <<>>
        ELSE /\ last.err = NoError
             /\ last.out[2] = last.in[2].choices[1].message.content

\* C5: in every send-interaction the user's message, once persisted, stays
\* among the messages unaltered in every later state; and an interaction
\* whose provider call failed or whose completion was empty is in
\* ReplyFailed and has persisted no reply message.
C5_ReplyFailedKeepsUserMessage ==
    \A i \in 1..MaxSends :
        /\ sends[i].userMsg # 0 =>
              /\ sends[i].userMsg <= Len(messages)
              /\ messages[sends[i].userMsg] =
                    [created_at |-> sends[i].userAt, message |-> sends[i].text,
                     from |-> sends[i].userId, room |-> sends[i].roomId]
        /\ sends[i].answer \in {"failed", "empty"} =>
              sends[i].phase = "ReplyFailed" /\ sends[i].reply = 0

\* The system content the request is to carry for a stored prompt: the
\* prompt itself, an absent prompt as absent or empty.
PromptContents(prompt) == IF prompt = NULL THEN {NULL, ""} ELSE {prompt}

\* C11: the request sent to the provider holds exactly two instructions,
\* first a system-role instruction whose content is the stored prompt of a
\* room (an absent prompt as an empty instruction), second a user-role
\* instruction whose content is the text of a user's message.
C11_RequestFromPromptAndMessage ==
    (last.op = "GET" /\ messages # <<>>) =>
        LET request == last.in[1] IN
        /\ Len(request) = 2
        /\ request[1].role = "system"
        /\ \E r \in rooms : request[1].content \in PromptContents(r.prompt)
        /\ request[2].role = "user"
        /\ \E k \in 1..Len(messages) : request[2].content = messages[k].message

\* Every stored message references a stored room and a stored user.
MessagesReferenceRows ==
    \A k \in 1..Len(messages) :
        RoomsById(messages[k].room) # {} /\ UsersById(messages[k].from) # {}

C12_Step ==
    /\ (last'.op = "insertMessage"
           /\ (RoomsById(last'.in[2]) = {} \/ UsersById(last'.in[3]) = {})) =>
          messages' = messages
    /\ \A k \in 1..Len(messages) :
          /\ \A r \in RoomsById(messages[k].room) : \E q \in rooms' : q.id = r.id
          /\ \A u \in UsersById(messages[k].from) : \E q \in users' : q.id = u.id

\* C12: in every reachable state every stored message references a room
\* that exists and a user that exists: an insertMessage whose roomId or
\* userId matches no row adds no message, and no operation removes a room
\* or a user that a message references.
C12_MessagesReferenceRows == []MessagesReferenceRows /\ [][C12_Step]_vars

\* C12 witness: with messages stored, an insertMessage naming a room or a
\* user that matches no row has run.
C12_Witness ==
    /\ last.op = "insertMessage"
    /\ RoomsById(last.in[2]) = {} \/ UsersById(last.in[3]) = {}
    /\ messages # <<>>
    /\ Cardinality(rooms) > 1

\* The heap positions of the messages stored for a room.
StoredIn(roomId) == {k \in 1..Len(messages) : messages[k].room = roomId}

\* C13: getRoomMessages(R) returns exactly the messages stored with room R,
\* each once, none missing and none of another room, and each entry carries
\* the message text and createdAt of its row and the name and avatarUrl of
\* the user whose id authored it.
C13_ExactlyTheRoomsMessages ==
    (last.op = "getRoomMessages" /\ last.err = NoError) =>
        LET out == last.out
            n == Len(out)
            idx == StoredIn(last.in[1]) IN
        /\ n = Cardinality(idx)
        /\ \E f \in [1..n -> idx] :
              /\ \A i \in 1..n, j \in 1..n : i # j => f[i] # f[j]
              /\ \A i \in 1..n :
                    /\ out[i].message = messages[f[i]].message
                    /\ out[i].createdAt = messages[f[i]].created_at
                    /\ \E u \in users :
                          /\ u.id = messages[f[i]].from
                          /\ out[i].from = [name |-> u.username, avatarUrl |-> u.avatar_url]

\* C13 witness: a result of three messages by both users.
C13_Witness ==
    /\ last.op = "getRoomMessages"
    /\ last.err = NoError
    /\ Len(last.out) = 3
    /\ \E i \in 1..3, j \in 1..3 : last.out[i].from.name # last.out[j].from.name

\* Exactly one room is named Lobby, and it is the seed row with id 0.
OneLobby ==
    /\ RoomsByName("Lobby") = SeedRooms
    /\ RoomsById(LobbyId) = SeedRooms

C14_Step ==
    (last'.op = "load.seed" /\ last'.err # ConnectionFailure) =>
        /\ last'.err = NoError
        /\ RoomsById(LobbyId) # {} => tables' = tables

\* C14: the seed of the room (id 0, name 'Lobby') is idempotent: run any
\* number of times, also after or between the statements of ensureRoom
\* calls (for the name 'Lobby' too), the seed statement never fails when
\* storage answers, exactly one room is named 'Lobby' and its id is 0, and
\* the statement changes nothing when that row is present.
C14_SeedIdempotent == []OneLobby /\ [][C14_Step]_vars

\* C14 witness: the seed has run without error between the insert and the
\* read of an ensureRoom call for 'Lobby', after room a was created.
C14_Witness ==
    /\ last.op = "load.seed"
    /\ last.err = NoError
    /\ \E c \in 1..MaxCalls :
          calls[c].pc = "read" /\ calls[c].name = "Lobby" /\ calls[c].code = UniqueViolation
    /\ RoomsByName("a") # {}

C15_Step ==
    (last'.op = "ensureRoom" /\ last'.err = NoError) =>
        /\ Len(last'.out) = 1
        /\ \E r \in rooms' : r.name = last'.in[1] /\ r.id = last'.out[1]
        /\ \A r \in rooms' : r.name = last'.in[1] => r.id = last'.out[1]

\* C15: every ensureRoom call that completes without raising returns a
\* defined roomId, the id of the stored room whose name is the requested
\* name; whatever the interleaving of the statements of concurrent calls,
\* no call completes returning no value.
C15_EnsureRoomReturnsStoredId == [][C15_Step]_vars

\* C15 witness: a call for 'Lobby' has returned the seed's id 0 while
\* another call for 'Lobby' is between its insert and its read.
C15_Witness ==
    /\ last.op = "ensureRoom"
    /\ last.err = NoError
    /\ last.in[1] = "Lobby"
    /\ last.out = <<LobbyId>>
    /\ \E c \in 1..MaxCalls : calls[c].pc = "read" /\ calls[c].name = "Lobby"

C16_Step ==
    /\ \* a stored room keeps its id, name and prompt
       rooms \subseteq rooms'
    /\ \* a room is created by the insert of an ensureRoom for a new name,
       \* with that insert's prompt
       \A r \in rooms' \ rooms :
          /\ last'.op = "ensureRoom.insert"
          /\ RoomsByName(r.name) = {}
          /\ r.name = last'.in[1]
          /\ r.prompt = last'.in[2]
    /\ \* ensureRoom for a name that exists changes no room
       (last'.op \in {"ensureRoom.insert", "ensureRoom"}
           /\ RoomsByName(last'.in[1]) # {}) => rooms' = rooms
    /\ \* getRoomPrompt returns the stored prompt
       (last'.op = "getRoomPrompt" /\ last'.err = NoError) =>
          \E r \in rooms : r.id = last'.in[1] /\ last'.out = <<r.prompt>>

\* C16: a room's prompt is fixed at creation: an ensureRoom call for a name
\* that already exists, with an equal or a different prompt, leaves the
\* prompt, name and id of that room unchanged, so getRoomPrompt returns the
\* prompt of the insert that created the room in every later state.
C16_PromptFixedAtCreation == [][C16_Step]_vars

\* C16 witness: getRoomPrompt returns the prompt room a was created with
\* after the insert of an ensureRoom for a with another prompt was rejected.
C16_Witness ==
    /\ last.op = "getRoomPrompt"
    /\ last.err = NoError
    /\ calls[1].pc = "read"
    /\ calls[1].code = UniqueViolation
    /\ \E r \in RoomsByName(calls[1].name) :
          /\ r.id = last.in[1]
          /\ r.id # LobbyId
          /\ r.prompt # calls[1].prompt
          /\ last.out = <<r.prompt>>

IsPrefix(s, t) == Len(s) <= Len(t) /\ \A i \in 1..Len(s) : s[i] = t[i]

C17_Step ==
    /\ \* a stored message stays stored, unaltered
       IsPrefix(messages, messages')
    /\ \* a later result for the same room extends an earlier one
       (/\ last.op = "getRoomMessages" /\ last.err = NoError
        /\ last'.op = "getRoomMessages" /\ last'.err = NoError
        /\ last.in = last'.in) =>
          IsPrefix(last.out, last'.out)

\* C17: messages are append-only: a message once stored is still stored
\* with the same text, room, user and createdAt after every operation, and
\* the sequence getRoomMessages returned for a room is a prefix of the
\* sequence it returns for that room later.
C17_AppendOnly == [][C17_Step]_vars

\* C18: with concurrent send-interactions in one room, messages appear in
\* the order their inserts committed (getRoomMessages returns the room's
\* rows in that order), and in every interaction that has reached
\* ReplyPersisted the reply is stored after the user message that
\* triggered it (other interactions' messages may lie between the two).
C18_CommitOrder ==
    /\ (last.op = "getRoomMessages" /\ last.err = NoError) =>
          LET rows == SelectSeq(messages, LAMBDA m : m.room = last.in[1]) IN
          /\ Len(last.out) = Len(rows)
          /\ \A k \in 1..Len(rows) :
                /\ last.out[k].message = rows[k].message
                /\ last.out[k].createdAt = rows[k].created_at
    /\ \A i \in 1..MaxSends :
          sends[i].phase = "ReplyPersisted" =>
              /\ sends[i].userMsg # 0
              /\ sends[i].reply # 0
              /\ sends[i].userMsg < sends[i].reply

\* No two users rows hold the same username.
UserNamesUnique ==
    \A r \in users, q \in users : r.username = q.username => r = q

C19_Step ==
    (last'.op = "insertUser"
        /\ \E r \in users : r.id # last'.in[1] /\ r.username = last'.in[2]) =>
       /\ last'.err # NoError
       /\ users' = users

\* C19: in every reachable state no two users rows share a userName: an
\* upsert for userId A carrying a userName that a different userId B holds
\* raises an error and leaves the users table unchanged, A's row neither
\* created nor modified and B's row not modified.
C19_UserNamesUnique == []UserNamesUnique /\ [][C19_Step]_vars

\* C19 witness: the first upsert for a userId was rejected because the
\* other user holds the userName, and no row was created for it.
C19_Witness ==
    /\ last.op = "insertUser"
    /\ last.err = UniqueViolation
    /\ UsersById(last.in[1]) = {}
    /\ \E r \in users : r.username = last.in[2]

====
